---------------------------- MODULE Spec2Model ----------------------------
(***************************************************************************)
(* The data core of src/src/VersionDownloadChart.tsx: filterTopN (windowed *)
(* top-N selection with zero-fill), transformToPercentage, the pivot loop  *)
(* of the component, and calculateDateTicks.                               *)
(*                                                                         *)
(* Timestamps are counted in whole seconds: a date d of the model is the   *)
(* JavaScript timestamp d * 1000 ms.  TLC's integers are 32 bits wide and  *)
(* 30 days of milliseconds do not fit; every comparison, subtraction and   *)
(* floor of a quotient the code makes on timestamps is unchanged by the    *)
(* common factor, and the one place where the factor shows, the decimal    *)
(* string of a date, is modelled on the millisecond value (String).        *)
(* The local time zone of Date.setHours is taken to be UTC without         *)
(* daylight saving.                                                        *)
(***************************************************************************)
EXTENDS Integers, Sequences, FiniteSets, TLC

VARIABLES
    pc,                \* "call": arguments chosen; "return": the operation ran
    historyPoints,     \* HistoryPoint[]: the point list handed to the operation
    n,                 \* filterTopN: n
    windowInDays,      \* filterTopN: windowInDays
    pointsWithZero,    \* filterTopN: the returned list
    percentagePoints,  \* transformToPercentage: the returned list
    dates,             \* calculateDateTicks: dates
    maxTicks,          \* calculateDateTicks: maxTicks
    ticks,             \* calculateDateTicks: the returned list
    props,             \* VersionDownloadChart: the props other than historyPoints
    chart              \* VersionDownloadChart: what one render computes

vars == <<pc, historyPoints, n, windowInDays, pointsWithZero, percentagePoints,
          dates, maxTicks, ticks, props, chart>>

topNVars == <<n, windowInDays, pointsWithZero>>

ticksVars == <<dates, maxTicks, ticks>>

chartVars == <<props, chart>>

(***************************************************************************)
(* Bounds and input domains                                                *)
(***************************************************************************)
MaxPoints == 3

Versions == {"a", "b", "c"}

Counts == {0, 1, 2}

\* 24 * 60 * 60 * 1000 ms, in seconds
dayDuration == 24 * 60 * 60

\* 9 s and 10 s: same day, decimal strings of different lengths;
\* two days later: a date that puts the first two outside a one-day window
TopNDates == {9, 10, 2 * dayDuration + 5}

WindowDays == {1, 3}

PercentageDates == {1, 2}

PercentageCounts == {0, 1, 2, 4}

MaxDates == 4

MaxTicksArg == 4

\* 23:00 of the first day, and midnights one to four weeks after its start
TickDates == {0, 23 * 60 * 60, 7 * dayDuration, 14 * dayDuration,
              21 * dayDuration, 28 * dayDuration}

ChartDates == {10, 2 * dayDuration + 5}

ChartCounts == {0, 1}

TopNArgs == {0, 1, 2}

VersionOrder == <<"a", "b", "c">>

SeqsUpTo(S, k) == UNION {[1..m -> S] : m \in 0..k}

HistoryPoint(D, C) == [date : D, version : Versions, count : C]

\* Versions are labels the code only compares for equality: a list is drawn
\* with its versions named in the order of their first occurrence
VersionIndex(v) == CHOOSE i \in DOMAIN VersionOrder : VersionOrder[i] = v

FirstOccurrenceNamed(points) ==
    \A i \in DOMAIN points :
        VersionIndex(points[i].version)
            <= 1 + Cardinality({points[j].version : j \in 1..(i - 1)})

PointLists(D, C, k) == {s \in SeqsUpTo(HistoryPoint(D, C), k) : FirstOccurrenceNamed(s)}

Max(a, b) == IF a >= b THEN a ELSE b

Min(a, b) == IF a <= b THEN a ELSE b

Range(s) == {s[i] : i \in DOMAIN s}

(***************************************************************************)
(* JavaScript helpers                                                      *)
(***************************************************************************)
\* new Date(date).setHours(0, 0, 0, 0)
dayStart(date) == date - (date % dayDuration)

\* Array.prototype.find on a predicate given as the set of matching elements:
\* the index of the first match, 0 when there is none
RECURSIVE findIndexFrom(_, _, _)
findIndexFrom(arr, matching, i) ==
    IF i > Len(arr) THEN 0
    ELSE IF arr[i] \in matching THEN i
    ELSE findIndexFrom(arr, matching, i + 1)

findIndex(arr, matching) == findIndexFrom(arr, matching, 1)

\* Array.prototype.slice(start) with one argument
slice(arr, start) ==
    LET k == IF start < 0 THEN Max(Len(arr) + start, 0) ELSE Min(start, Len(arr))
    IN  SubSeq(arr, k + 1, Len(arr))

\* Decimal digits of a natural number, most significant first
RECURSIVE Digits(_)
Digits(k) == IF k < 10 THEN <<k>> ELSE Append(Digits(k \div 10), k % 10)

\* String(date) of the millisecond timestamp date * 1000
String(date) == IF date = 0 THEN <<0>> ELSE Digits(date) \o <<0, 0, 0>>

\* s < t in the order of UTF-16 code units (digits only)
RECURSIVE StringLess(_, _)
StringLess(s, t) ==
    IF t = <<>> THEN FALSE
    ELSE IF s = <<>> THEN TRUE
    ELSE IF s[1] # t[1] THEN s[1] < t[1]
    ELSE StringLess(Tail(s), Tail(t))

(***************************************************************************)
(* filterTopN                                                              *)
(***************************************************************************)
latestDate(points) == points[Len(points)].date

latestDay(points) == dayStart(latestDate(points))

earliestAllowableDate(points, w) == latestDay(points) - w * dayDuration

\* The loop of lines 275-288: versionsInWindow after points[i..] are scanned
RECURSIVE versionsInWindowFrom(_, _, _, _)
versionsInWindowFrom(points, i, earliest, acc) ==
    IF i > Len(points) THEN acc
    ELSE LET point == points[i]
             existing == findIndex(acc, {v \in Range(acc) : v.version = point.version})
             newCount == IF point.date < earliest THEN 0 ELSE point.count
             next == IF point.date >= earliest
                     THEN IF existing # 0
                          THEN [acc EXCEPT ![existing].count = @ + newCount]
                          ELSE Append(acc, [version |-> point.version, count |-> newCount])
                     ELSE acc
         IN  versionsInWindowFrom(points, i + 1, earliest, next)

versionsInWindow(points, earliest) == versionsInWindowFrom(points, 1, earliest, <<>>)

\* .sort((a, b) => a.count - b.count): Array.prototype.sort is stable, so an
\* element goes after every element whose count is not greater than its own
RECURSIVE insertByCount(_, _)
insertByCount(sorted, x) ==
    IF sorted = <<>> THEN <<x>>
    ELSE IF x.count - sorted[1].count < 0 THEN <<x>> \o sorted
    ELSE <<sorted[1]>> \o insertByCount(Tail(sorted), x)

RECURSIVE sortByCountFrom(_, _, _)
sortByCountFrom(arr, i, acc) ==
    IF i > Len(arr) THEN acc
    ELSE sortByCountFrom(arr, i + 1, insertByCount(acc, arr[i]))

sortByCount(arr) == sortByCountFrom(arr, 1, <<>>)

\* .map((v) => v.version)
RECURSIVE versionsOf(_)
versionsOf(arr) ==
    IF arr = <<>> THEN <<>> ELSE <<arr[1].version>> \o versionsOf(Tail(arr))

\* A plausible slip: .slice(0, n) keeps the n lowest totals
topVersionsLowest(points, k, w) ==
    LET sorted == sortByCount(versionsInWindow(points, earliestAllowableDate(points, w)))
    IN  versionsOf(SubSeq(sorted, 1, Min(k, Len(sorted))))

\* lines 290-293
topVersions(points, k, w) ==
    versionsOf(slice(sortByCount(versionsInWindow(points, earliestAllowableDate(points, w))),
                     -k))

\* lines 295-303
RECURSIVE topVersionsInOrderFrom(_, _, _, _)
topVersionsInOrderFrom(points, top, i, acc) ==
    IF i > Len(points) THEN acc
    ELSE topVersionsInOrderFrom(points, top, i + 1,
             IF points[i].version \in Range(top) /\ points[i].version \notin Range(acc)
             THEN Append(acc, points[i].version)
             ELSE acc)

topVersionsInOrder(points, top) == topVersionsInOrderFrom(points, top, 1, <<>>)

\* lines 305-310
IsTop(top, point) == point.version \in Range(top)

filteredPoints(points, top) ==
    LET keep(point) == IsTop(top, point) IN SelectSeq(points, keep)

\* lines 312-319: the Map's keys in insertion order, and its value for a key
RECURSIVE mapKeysFrom(_, _, _)
mapKeysFrom(points, i, acc) ==
    IF i > Len(points) THEN acc
    ELSE mapKeysFrom(points, i + 1,
             IF points[i].date \in Range(acc) THEN acc ELSE Append(acc, points[i].date))

mapKeys(points) == mapKeysFrom(points, 1, <<>>)

mapGet(points, date) ==
    LET onDate(point) == point.date = date IN SelectSeq(points, onDate)

\* [...pointsByDate.keys()].sort(): no comparator, so the keys are compared
\* as strings; stable
RECURSIVE insertByString(_, _)
insertByString(sorted, x) ==
    IF sorted = <<>> THEN <<x>>
    ELSE IF StringLess(String(x), String(sorted[1])) THEN <<x>> \o sorted
    ELSE <<sorted[1]>> \o insertByString(Tail(sorted), x)

RECURSIVE sortDefaultFrom(_, _, _)
sortDefaultFrom(arr, i, acc) ==
    IF i > Len(arr) THEN acc
    ELSE sortDefaultFrom(arr, i + 1, insertByString(acc, arr[i]))

sortDefault(arr) == sortDefaultFrom(arr, 1, <<>>)

datesAscending(filtered) == sortDefault(mapKeys(filtered))

\* A plausible slip: the else branch of line 335 is missing
RECURSIVE zeroFillDateExistingOnly(_, _, _, _)
zeroFillDateExistingOnly(filtered, date, inOrder, j) ==
    IF j > Len(inOrder) THEN <<>>
    ELSE LET onDate == mapGet(filtered, date)
             existing == findIndex(onDate, {p \in Range(onDate) : p.version = inOrder[j]})
         IN  (IF existing # 0 THEN <<[onDate[existing] EXCEPT !.date = date]>> ELSE <<>>)
             \o zeroFillDateExistingOnly(filtered, date, inOrder, j + 1)

\* lines 329-338: the points pushed for one date
RECURSIVE zeroFillDate(_, _, _, _)
zeroFillDate(filtered, date, inOrder, j) ==
    IF j > Len(inOrder) THEN <<>>
    ELSE LET onDate == mapGet(filtered, date)
             existing == findIndex(onDate, {p \in Range(onDate) : p.version = inOrder[j]})
             pushed == IF existing # 0
                       THEN [onDate[existing] EXCEPT !.date = date]
                       ELSE [date |-> date, version |-> inOrder[j], count |-> 0]
         IN  <<pushed>> \o zeroFillDate(filtered, date, inOrder, j + 1)

\* A plausible slip: the test of line 325 is missing
RECURSIVE zeroFillFromEveryDate(_, _, _, _, _)
zeroFillFromEveryDate(filtered, sortedDates, inOrder, earliest, i) ==
    IF i > Len(sortedDates) THEN <<>>
    ELSE zeroFillDate(filtered, sortedDates[i], inOrder, 1)
         \o zeroFillFromEveryDate(filtered, sortedDates, inOrder, earliest, i + 1)

\* lines 324-339
RECURSIVE zeroFillFrom(_, _, _, _, _)
zeroFillFrom(filtered, sortedDates, inOrder, earliest, i) ==
    IF i > Len(sortedDates) THEN <<>>
    ELSE (IF sortedDates[i] < earliest THEN <<>>
          ELSE zeroFillDate(filtered, sortedDates[i], inOrder, 1))
         \o zeroFillFrom(filtered, sortedDates, inOrder, earliest, i + 1)

filterTopN(points, k, w) ==
    IF Len(points) = 0 THEN <<>>
    ELSE LET top == topVersions(points, k, w)
             filtered == filteredPoints(points, top)
         IN  zeroFillFrom(filtered, datesAscending(filtered),
                          topVersionsInOrder(points, top),
                          earliestAllowableDate(points, w), 1)

(***************************************************************************)
(* transformToPercentage                                                   *)
(*                                                                         *)
(* count / total is a division of IEEE 754 doubles, rounded to the nearest *)
(* double, ties to even.  The quotient of integers 0 < c <= t is the       *)
(* 53-bit integer q = round(c * 2^scale / t) divided by 2^scale, scale     *)
(* being 52 plus the number of doublings that bring c up to t.  q does not *)
(* fit TLC's integers, so a double is kept as the exact quotient and its   *)
(* rounding error:                                                         *)
(*     value = num / den + err / (den * 2^scale),   err = q * den - num * 2^scale. *)
(* 0 / 0 is NaN.                                                           *)
(***************************************************************************)
mantissaBits == 53

NaN == [nan |-> TRUE, num |-> 0, den |-> 0, scale |-> 0, err |-> 0]

\* The least e >= 0 with c * 2^e >= t, for 0 < c <= t
RECURSIVE doublingsTo(_, _)
doublingsTo(c, t) == IF c >= t THEN 0 ELSE 1 + doublingsTo(2 * c, t)

\* (c * 2^k) % t
RECURSIVE remainderAfter(_, _, _)
remainderAfter(c, t, k) ==
    IF k = 0 THEN c % t ELSE (2 * remainderAfter(c, t, k - 1)) % t

\* c / t for integers 0 <= c <= t
divide(c, t) ==
    IF t = 0 THEN NaN
    ELSE IF c = 0 THEN [nan |-> FALSE, num |-> 0, den |-> t, scale |-> 0, err |-> 0]
    ELSE LET scale == doublingsTo(c, t) + mantissaBits - 1
             r == remainderAfter(c, t, scale)
             qOdd == 2 * remainderAfter(c, t, scale - 1) >= t
             roundUp == 2 * r > t \/ (2 * r = t /\ qOdd)
         IN  [nan |-> FALSE, num |-> c, den |-> t, scale |-> scale,
              err |-> IF roundUp THEN t - r ELSE 0 - r]

\* A plausible slip: one total for all dates
RECURSIVE totalCountAllDates(_, _, _)
totalCountAllDates(points, i, date) ==
    IF i = 0 THEN 0 ELSE totalCountAllDates(points, i - 1, date) + points[i].count

\* lines 247-252: totalCountByDate[date] after points[1..i] are added
RECURSIVE totalCountByDate(_, _, _)
totalCountByDate(points, i, date) ==
    IF i = 0 THEN 0
    ELSE LET prevTotal == totalCountByDate(points, i - 1, date)
         IN  IF points[i].date = date THEN prevTotal + points[i].count ELSE prevTotal

\* lines 254-257: points.map(...) from index i on
RECURSIVE percentagesFrom(_, _)
percentagesFrom(points, i) ==
    IF i > Len(points) THEN <<>>
    ELSE <<[date |-> points[i].date,
            version |-> points[i].version,
            count |-> divide(points[i].count,
                             totalCountByDate(points, Len(points), points[i].date))]>>
         \o percentagesFrom(points, i + 1)

transformToPercentage(points) == percentagesFrom(points, 1)

(***************************************************************************)
(* calculateDateTicks                                                      *)
(***************************************************************************)
\* dates[0] and dates[dates.length - 1] of an empty array
Undefined == "undefined"

weekDuration == 7 * dayDuration

\* lines 239-244
fromDayStart(date, duration) == dayStart(date) + duration

\* lines 220-223, for a dataDuration that is a number
RECURSIVE tickIntervalFrom(_, _, _)
tickIntervalFrom(dataDuration, maxInteriorTicks, tickInterval) ==
    IF dataDuration \div tickInterval > maxInteriorTicks
    THEN tickIntervalFrom(dataDuration, maxInteriorTicks, tickInterval * 2)
    ELSE tickInterval

\* lines 228-233: the Set's members, in insertion order
RECURSIVE scanTicks(_, _, _, _, _)
scanTicks(ds, i, tickInterval, nextTick, acc) ==
    IF i > Len(ds) THEN acc
    ELSE IF ds[i] >= nextTick
         THEN scanTicks(ds, i + 1, tickInterval, fromDayStart(ds[i], tickInterval),
                        IF ds[i] \in Range(acc) THEN acc ELSE Append(acc, ds[i]))
         ELSE scanTicks(ds, i + 1, tickInterval, nextTick, acc)

\* With no dates, first and last are undefined, dataDuration is NaN, the
\* comparison of line 221 is false and the scan has nothing to visit
calculateDateTicks(ds, k) ==
    LET first == IF Len(ds) = 0 THEN Undefined ELSE ds[1]
        last == IF Len(ds) = 0 THEN Undefined ELSE ds[Len(ds)]
    IN  IF k = 0 THEN <<>>
        ELSE IF k = 1 THEN <<first>>
        ELSE IF k = 2 THEN <<first, last>>
        ELSE IF Len(ds) = 0 THEN <<first>>
        ELSE LET tickInterval == tickIntervalFrom(last - first, k - 1, weekDuration)
             IN  scanTicks(ds, 1, tickInterval, fromDayStart(first, tickInterval), <<first>>)

(***************************************************************************)
(* VersionDownloadChart: lines 82-166 of one render                        *)
(***************************************************************************)
\* An optional prop: <<>> when absent, <<x>> when given
Optional(S) == {<<>>} \cup {<<x>> : x \in S}

OrElse(opt, default) == IF opt = <<>> THEN default ELSE opt[1]

defaultMaxDaysShown == 30

defaultMaxTicks == 6

\* lines 97-98: the distinct versions in the order of their first occurrence
RECURSIVE allVersionsArrFrom(_, _, _)
allVersionsArrFrom(datapoints, i, acc) ==
    IF i > Len(datapoints) THEN acc
    ELSE allVersionsArrFrom(datapoints, i + 1,
             IF datapoints[i].version \in Range(acc) THEN acc
             ELSE Append(acc, datapoints[i].version))

allVersionsArr(datapoints) == allVersionsArrFrom(datapoints, 1, <<>>)

\* A plausible slip: a count already in the row is kept
pivotPointFirstWins(data, version, measurePoint) ==
    IF measurePoint.version = version
    THEN LET datePoint == findIndex(data, {p \in Range(data) : p.date = measurePoint.date})
         IN  IF datePoint # 0
             THEN [data EXCEPT ![datePoint].versionCounts =
                       @ @@ (version :> measurePoint.count)]
             ELSE Append(data, [date |-> measurePoint.date,
                                versionCounts |-> (version :> measurePoint.count)])
    ELSE data

\* lines 122-132: one measurePoint of the inner loop
pivotPoint(data, version, measurePoint) ==
    IF measurePoint.version = version
    THEN LET datePoint == findIndex(data, {p \in Range(data) : p.date = measurePoint.date})
         IN  IF datePoint # 0
             THEN [data EXCEPT ![datePoint].versionCounts =
                       (version :> measurePoint.count) @@ @]
             ELSE Append(data, [date |-> measurePoint.date,
                                versionCounts |-> (version :> measurePoint.count)])
    ELSE data

\* lines 121-133
RECURSIVE pivotVersion(_, _, _, _)
pivotVersion(data, version, datapoints, i) ==
    IF i > Len(datapoints) THEN data
    ELSE pivotVersion(pivotPoint(data, version, datapoints[i]), version, datapoints, i + 1)

\* lines 118-134
RECURSIVE pivotFrom(_, _, _, _)
pivotFrom(data, versions, datapoints, v) ==
    IF v > Len(versions) THEN data
    ELSE pivotFrom(pivotVersion(data, versions[v], datapoints, 1), versions, datapoints, v + 1)

pivot(datapoints) == pivotFrom(<<>>, allVersionsArr(datapoints), datapoints, 1)

\* datapoints holds quotients when the transform is "percentage": each of its
\* counts is kept as a double, an integer count c being the double c / 1
number(c) == [nan |-> FALSE, num |-> c, den |-> 1, scale |-> 0, err |-> 0]

RECURSIVE asNumbers(_)
asNumbers(points) ==
    IF points = <<>> THEN <<>>
    ELSE <<[date |-> points[1].date, version |-> points[1].version,
            count |-> number(points[1].count)]>> \o asNumbers(Tail(points))

\* line 164: datapoints.map((p) => p.date)
RECURSIVE datesOf(_)
datesOf(datapoints) ==
    IF datapoints = <<>> THEN <<>> ELSE <<datapoints[1].date>> \o datesOf(Tail(datapoints))

\* lines 83-85: a number is truthy unless it is 0
topRawDataPoints(points, maxVersionsShown, maxDaysShown) ==
    IF maxVersionsShown # <<>> /\ maxVersionsShown[1] # 0
    THEN filterTopN(points, maxVersionsShown[1], maxDaysShown)
    ELSE points

\* The colours of lines 100-116 and the JSX of lines 150-196 are left to
\* generateColor and recharts; what is kept is the data handed to them

VersionDownloadChart(points, p) ==
    LET top == topRawDataPoints(points, p.maxVersionsShown,
                                OrElse(p.maxDaysShown, defaultMaxDaysShown))
        datapoints == IF p.measurementTransform = "percentage"
                      THEN transformToPercentage(top)
                      ELSE asNumbers(top)
    IN  [topRawDataPoints |-> top,
         datapoints |-> datapoints,
         allVersionsArr |-> allVersionsArr(datapoints),
         data |-> pivot(datapoints),
         \* lines 136-148: nothing is drawn for no datapoints
         ticks |-> IF Len(datapoints) = 0 THEN <<>>
                   ELSE calculateDateTicks(datesOf(datapoints),
                                           OrElse(p.maxTicks, defaultMaxTicks))]

NoProps == [maxDaysShown |-> <<>>, maxVersionsShown |-> <<>>, maxTicks |-> <<>>,
            measurementTransform |-> "totalDownloads"]

NoChart == [topRawDataPoints |-> <<>>, datapoints |-> <<>>, allVersionsArr |-> <<>>,
            data |-> <<>>, ticks |-> <<>>]

(***************************************************************************)
(* Specification: filterTopN applied to a drawn point list                 *)
(***************************************************************************)
InitTopN ==
    /\ pc = "call"
    /\ historyPoints \in PointLists(TopNDates, Counts, MaxPoints)
    /\ n = 0
    /\ windowInDays = 0
    /\ pointsWithZero = <<>>
    /\ percentagePoints = <<>>
    /\ dates = <<>>
    /\ maxTicks = 0
    /\ ticks = <<>>
    /\ props = NoProps
    /\ chart = NoChart

CallFilterTopN ==
    /\ pc = "call"
    /\ \E k \in TopNArgs, w \in WindowDays :
          /\ n' = k
          /\ windowInDays' = w
          /\ pointsWithZero' = filterTopN(historyPoints, k, w)
    /\ pc' = "return"
    /\ UNCHANGED <<historyPoints, percentagePoints, ticksVars, chartVars>>

NextTopN == CallFilterTopN

SpecTopN == InitTopN /\ [][NextTopN]_vars

(***************************************************************************)
(* Specification: transformToPercentage applied to a drawn point list      *)
(***************************************************************************)
InitPercentage ==
    /\ pc = "call"
    /\ historyPoints \in PointLists(PercentageDates, PercentageCounts, MaxPoints)
    /\ n = 0
    /\ windowInDays = 0
    /\ pointsWithZero = <<>>
    /\ percentagePoints = <<>>
    /\ dates = <<>>
    /\ maxTicks = 0
    /\ ticks = <<>>
    /\ props = NoProps
    /\ chart = NoChart

CallTransformToPercentage ==
    /\ pc = "call"
    /\ percentagePoints' = transformToPercentage(historyPoints)
    /\ pc' = "return"
    /\ UNCHANGED <<historyPoints, topNVars, ticksVars, chartVars>>

NextPercentage == CallTransformToPercentage

SpecPercentage == InitPercentage /\ [][NextPercentage]_vars

(***************************************************************************)
(* Specification: calculateDateTicks applied to a drawn ascending date list *)
(***************************************************************************)
Ascending(ds) == \A i, j \in DOMAIN ds : i <= j => ds[i] <= ds[j]

InitTicks ==
    /\ pc = "call"
    /\ historyPoints = <<>>
    /\ n = 0
    /\ windowInDays = 0
    /\ pointsWithZero = <<>>
    /\ percentagePoints = <<>>
    /\ dates \in {ds \in SeqsUpTo(TickDates, MaxDates) : Ascending(ds)}
    /\ maxTicks = 0
    /\ ticks = <<>>
    /\ props = NoProps
    /\ chart = NoChart

CallCalculateDateTicks ==
    /\ pc = "call"
    /\ \E k \in 0..MaxTicksArg :
          /\ maxTicks' = k
          /\ ticks' = calculateDateTicks(dates, k)
    /\ pc' = "return"
    /\ UNCHANGED <<historyPoints, topNVars, percentagePoints, dates, chartVars>>

NextTicks == CallCalculateDateTicks

SpecTicks == InitTicks /\ [][NextTicks]_vars

(***************************************************************************)
(* Specification: one render of VersionDownloadChart                       *)
(***************************************************************************)
Props == [maxDaysShown : Optional({1}),
          maxVersionsShown : Optional({-1, 0, 1, 2}),
          maxTicks : Optional({2}),
          measurementTransform : {"totalDownloads", "percentage"}]

InitChart ==
    /\ pc = "call"
    /\ historyPoints \in PointLists(ChartDates, ChartCounts, MaxPoints)
    /\ n = 0
    /\ windowInDays = 0
    /\ pointsWithZero = <<>>
    /\ percentagePoints = <<>>
    /\ dates = <<>>
    /\ maxTicks = 0
    /\ ticks = <<>>
    /\ props = NoProps
    /\ chart = NoChart

Render ==
    /\ pc = "call"
    /\ \E p \in Props :
          /\ props' = p
          /\ chart' = VersionDownloadChart(historyPoints, p)
    /\ pc' = "return"
    /\ UNCHANGED <<historyPoints, topNVars, percentagePoints, ticksVars>>

NextChart == Render

SpecChart == InitChart /\ [][NextChart]_vars

(***************************************************************************)
(* Claims about filterTopN                                                 *)
(***************************************************************************)
Returned == pc = "return"

earliestAllowed == earliestAllowableDate(historyPoints, windowInDays)

\* Indices of the input points inside the window
InWindow == {i \in DOMAIN historyPoints : historyPoints[i].date >= earliestAllowed}

WindowVersions == {historyPoints[i].version : i \in InWindow}

RECURSIVE SumCounts(_)
SumCounts(I) ==
    IF I = {} THEN 0
    ELSE LET i == CHOOSE x \in I : TRUE
         IN  historyPoints[i].count + SumCounts(I \ {i})

WindowTotal(v) == SumCounts({i \in InWindow : historyPoints[i].version = v})

FirstIn(I, v) == CHOOSE i \in I : /\ historyPoints[i].version = v
                                  /\ \A j \in I : historyPoints[j].version = v => i <= j

\* u comes before v in the list sorted ascending by total, first-encounter
\* order among equal totals
RanksBefore(u, v) ==
    \/ WindowTotal(u) < WindowTotal(v)
    \/ /\ WindowTotal(u) = WindowTotal(v)
       /\ FirstIn(InWindow, u) < FirstIn(InWindow, v)

ResultVersions == {pointsWithZero[i].version : i \in DOMAIN pointsWithZero}

ResultDates == {pointsWithZero[i].date : i \in DOMAIN pointsWithZero}

\* C1: for a non-empty point list and n >= 1 the versions of the result are
\* the last n entries (all when fewer exist) of the in-window versions sorted
\* ascending by in-window total, first-encounter order among equal totals:
\* at most n versions, all in-window, and every evicted in-window version
\* ranks before every kept one.
C1_TopNVersions ==
    (Returned /\ n >= 1 /\ historyPoints # <<>>) =>
        /\ ResultVersions \subseteq WindowVersions
        /\ Cardinality(ResultVersions) = Min(n, Cardinality(WindowVersions))
        /\ \A kept \in ResultVersions : \A evicted \in WindowVersions \ ResultVersions :
               /\ RanksBefore(evicted, kept)
               /\ ~(WindowTotal(evicted) > WindowTotal(kept))

\* A version is evicted although its nonzero total equals that of a kept
\* version, and another point lies outside the window
C1_Witness ==
    /\ Returned /\ n = 1
    /\ InWindow # DOMAIN historyPoints
    /\ \E kept \in ResultVersions : \E evicted \in WindowVersions \ ResultVersions :
           WindowTotal(evicted) = WindowTotal(kept) /\ WindowTotal(kept) > 0

InputAt(date, v) == {i \in DOMAIN historyPoints :
                        historyPoints[i].date = date /\ historyPoints[i].version = v}

ResultAt(date, v) == {i \in DOMAIN pointsWithZero :
                        pointsWithZero[i].date = date /\ pointsWithZero[i].version = v}

Least(I) == CHOOSE i \in I : \A j \in I : i <= j

KeptVersions == Range(topVersions(historyPoints, n, windowInDays))

\* C2: zero-fill completeness: for n >= 1, every date of the result and every
\* kept version have exactly one point in the result; its count is the input
\* count of that (date, version) pair (the first one in the list when the
\* pair repeats) and 0 when the input has no such pair.
C2_ZeroFill ==
    (Returned /\ n >= 1 /\ historyPoints # <<>>) =>
        \A date \in ResultDates : \A v \in KeptVersions :
            /\ Cardinality(ResultAt(date, v)) = 1
            /\ \A i \in ResultAt(date, v) :
                   pointsWithZero[i].count =
                       IF InputAt(date, v) = {} THEN 0
                       ELSE historyPoints[Least(InputAt(date, v))].count

\* A pair repeated in the input with two counts, and a pair filled with zero
C2_Witness ==
    /\ Returned /\ n >= 1
    /\ \E date \in ResultDates : \E v \in KeptVersions :
           \E i, j \in InputAt(date, v) : historyPoints[i].count # historyPoints[j].count
    /\ \E date \in ResultDates : \E v \in KeptVersions : InputAt(date, v) = {}

SortedByDate(points) ==
    \A i, j \in DOMAIN points : i <= j => points[i].date <= points[j].date

\* C3 as stated (here for n >= 1): every returned date lies in
\* [earliestAllowableDate, latestDate], for every non-empty list, sorted by
\* date or not
C3_AsClaimed ==
    (Returned /\ n >= 1 /\ historyPoints # <<>>) =>
        \A date \in ResultDates :
            earliestAllowed <= date /\ date <= latestDate(historyPoints)

\* C3 (amended): every returned date is >= earliestAllowableDate, and it is
\* <= latestDate when the list is sorted ascending by date.
C3_DatesInWindow ==
    (Returned /\ historyPoints # <<>>) =>
        \A date \in ResultDates :
            /\ earliestAllowed <= date
            /\ SortedByDate(historyPoints) => date <= latestDate(historyPoints)

\* A sorted list with a point of a kept version before the window
C3_Witness ==
    /\ Returned /\ n >= 1 /\ historyPoints # <<>>
    /\ SortedByDate(historyPoints)
    /\ \E i \in DOMAIN historyPoints :
           /\ historyPoints[i].date < earliestAllowed
           /\ historyPoints[i].count > 0
           /\ historyPoints[i].version \in ResultVersions

FirstOccurrence(v) == Least({i \in DOMAIN historyPoints : historyPoints[i].version = v})

\* C10: for n >= 1 the result is grouped by date in ascending numeric order
\* and, within a date, ordered by the kept versions' first occurrence in the
\* input list.
C10_ResultOrder ==
    (Returned /\ n >= 1 /\ historyPoints # <<>>) =>
        \A i, j \in DOMAIN pointsWithZero : i < j =>
            \/ pointsWithZero[i].date < pointsWithZero[j].date
            \/ /\ pointsWithZero[i].date = pointsWithZero[j].date
               /\ FirstOccurrence(pointsWithZero[i].version)
                      < FirstOccurrence(pointsWithZero[j].version)

(***************************************************************************)
(* Claims about transformToPercentage                                      *)
(***************************************************************************)
OnDate(date) == {i \in DOMAIN historyPoints : historyPoints[i].date = date}

InputDates == {historyPoints[i].date : i \in DOMAIN historyPoints}

DateTotal(date) == SumCounts(OnDate(date))

\* C5: no output count is NaN; on a date whose counts sum to 0 every output
\* count is the number 0.
C5_NoNaN ==
    Returned =>
        \A i \in DOMAIN percentagePoints :
            /\ ~percentagePoints[i].count.nan
            /\ DateTotal(historyPoints[i].date) = 0 =>
                   (percentagePoints[i].count.num = 0 /\ percentagePoints[i].count.err = 0)

SameShape ==
    /\ Len(percentagePoints) = Len(historyPoints)
    /\ \A i \in DOMAIN historyPoints :
           /\ percentagePoints[i].date = historyPoints[i].date
           /\ percentagePoints[i].version = historyPoints[i].version

RECURSIVE Max52(_)
Max52(I) ==
    IF I = {} THEN 0
    ELSE LET i == CHOOSE x \in I : TRUE
         IN  Max(percentagePoints[i].count.scale, Max52(I \ {i}))

RECURSIVE Pow2(_)
Pow2(k) == IF k = 0 THEN 1 ELSE 2 * Pow2(k - 1)

RECURSIVE SumNum(_)
SumNum(I) ==
    IF I = {} THEN 0
    ELSE LET i == CHOOSE x \in I : TRUE
         IN  percentagePoints[i].count.num + SumNum(I \ {i})

\* The rounding errors of the counts of I, summed in units of 2^-top / den
RECURSIVE SumErr(_, _)
SumErr(I, top) ==
    IF I = {} THEN 0
    ELSE LET i == CHOOSE x \in I : TRUE
             c == percentagePoints[i].count
         IN  c.err * Pow2(top - c.scale) + SumErr(I \ {i}, top)

\* Rounded counts round(c * 2^scale / den) / 2^scale with scale >= 52 and one
\* den, a handful of them: their sum is
\*     (2^top * SumNum + SumErr) / (den * 2^top),  |SumErr| < 2^top,
\* which is 1 exactly when SumNum = den and SumErr = 0.  Counts equal to 0
\* have no error and are left out of top.
SumsToOne(I) ==
    LET rounded == {i \in I : percentagePoints[i].count.num # 0}
        top == Max52(rounded)
    IN  /\ \A i \in I : ~percentagePoints[i].count.nan
        /\ \A i, j \in I : percentagePoints[i].count.den = percentagePoints[j].count.den
        /\ \A i \in I : SumNum(I) = percentagePoints[i].count.den
        /\ SumErr(rounded, top) = 0

\* C6 as stated: on every date with a nonzero total the output counts sum to
\* exactly 1, and the output has the input's length, dates and versions
C6_AsClaimed ==
    Returned =>
        /\ SameShape
        /\ \A date \in InputDates : DateTotal(date) # 0 => SumsToOne(OnDate(date))

Abs(x) == IF x < 0 THEN 0 - x ELSE x

\* C6 (amended): on every date with a nonzero total each output count is the
\* double nearest to count / total, total being the sum of the input counts of
\* that date: the quotients sum to 1 and each output is within half a unit in
\* the last place (2^-53 relative) of its quotient; the output has the
\* input's length, dates and versions in the input's order.
C6_Percentage ==
    Returned =>
        /\ SameShape
        /\ \A date \in InputDates : DateTotal(date) # 0 =>
               /\ SumNum(OnDate(date)) = DateTotal(date)
               /\ \A i \in OnDate(date) :
                      LET c == percentagePoints[i].count
                      IN  /\ ~c.nan
                          /\ c.num = historyPoints[i].count
                          /\ c.den = DateTotal(date)
                          /\ 2 * Abs(c.err) <= c.den
                          /\ c.num # 0 => c.scale >= mantissaBits - 1
                          /\ c.num # 0 => /\ c.num * Pow2(c.scale - mantissaBits + 1) >= c.den
                                          /\ c.num * Pow2(c.scale - mantissaBits + 1) < 2 * c.den

\* Two dates with different nonzero totals, one of them with a quotient that
\* is rounded
C6_Witness ==
    /\ Returned
    /\ \E d1, d2 \in InputDates : DateTotal(d1) # 0 /\ DateTotal(d2) # 0
                                 /\ DateTotal(d1) # DateTotal(d2)
    /\ \E i \in DOMAIN percentagePoints : percentagePoints[i].count.err # 0

(***************************************************************************)
(* Claims about calculateDateTicks                                         *)
(***************************************************************************)
\* C8: the tick list is empty whenever the date list is empty (for every
\* maxTicks >= 0) and whenever maxTicks is 0.
C8_EmptyTicks ==
    (Returned /\ (dates = <<>> \/ maxTicks = 0)) => ticks = <<>>

\* C9: for a non-empty ascending date list and maxTicks >= 1 there are at
\* most maxTicks ticks.
C9_AtMostMaxTicks ==
    (Returned /\ dates # <<>> /\ maxTicks >= 1) => Len(ticks) <= maxTicks

(***************************************************************************)
(* Claims about the component                                              *)
(***************************************************************************)
PivotInput == chart.datapoints

RowsOf(date) == {r \in DOMAIN chart.data : chart.data[r].date = date}

PivotDates == {PivotInput[i].date : i \in DOMAIN PivotInput}

OneRowPerDate ==
    /\ \A date \in PivotDates : Cardinality(RowsOf(date)) = 1
    /\ \A r \in DOMAIN chart.data : chart.data[r].date \in PivotDates

RowHas(i) ==
    \A r \in RowsOf(PivotInput[i].date) :
        /\ PivotInput[i].version \in DOMAIN chart.data[r].versionCounts
        /\ chart.data[r].versionCounts[PivotInput[i].version] = PivotInput[i].count

\* C7 as stated: every point (d, v, c) handed to the pivot loop, repeated
\* (date, version) pairs included, has versionCounts[v] = c in the row of d,
\* and there is exactly one row per distinct date
C7_AsClaimed ==
    Returned => (OneRowPerDate /\ \A i \in DOMAIN PivotInput : RowHas(i))

LastOfPair(i) ==
    \A j \in DOMAIN PivotInput :
        (PivotInput[j].date = PivotInput[i].date
            /\ PivotInput[j].version = PivotInput[i].version) => j <= i

\* C7 (amended): every point (d, v, c) handed to the pivot loop that is the
\* last one of the list with its (date, version) pair (every point, when no
\* pair repeats) has versionCounts[v] = c in the row of d, and there is
\* exactly one row per distinct date.
C7_PivotRoundTrip ==
    Returned =>
        (OneRowPerDate /\ \A i \in DOMAIN PivotInput : LastOfPair(i) => RowHas(i))

\* Two rows, two versions, and a pair that repeats with two counts
C7_Witness ==
    /\ Returned
    /\ Len(chart.data) = 2
    /\ Len(chart.allVersionsArr) = 2
    /\ \E i, j \in DOMAIN PivotInput :
           /\ i < j
           /\ PivotInput[j].date = PivotInput[i].date
           /\ PivotInput[j].version = PivotInput[i].version
           /\ PivotInput[j].count # PivotInput[i].count

\* C4: when the requested number of versions is <= 0 (n of filterTopN,
\* maxVersionsShown of the component) no version is kept and the resulting
\* point list is empty.
C4_NothingKept ==
    /\ (Returned /\ n <= 0) => pointsWithZero = <<>>
    /\ (Returned /\ props.maxVersionsShown # <<>> /\ props.maxVersionsShown[1] <= 0) =>
           (chart.topRawDataPoints = <<>> /\ chart.datapoints = <<>>)

=============================================================================
